---------------------------- MODULE Spec2Model ----------------------------
(***************************************************************************)
(* Dialogue to Speech Studio (src/App.tsx, services/geminiService).        *)
(*                                                                         *)
(* Three specifications share the definitions below:                         *)
(*   Spec       the React component App: its six state cells, the file     *)
(*              readers and generateTTS calls in flight, and one action    *)
(*              per event handler / promise continuation;                  *)
(*   SpecCodec  the audio pipeline of handleGenerate lines 75-77 as pure   *)
(*              functions applied to inputs drawn from bounded sets;       *)
(*   SpecParse  the line loop of parseMarkdown applied to texts drawn from *)
(*              a bounded set.                                             *)
(*                                                                         *)
(* services/audioUtils (decodeBase64, decodeAudioData, audioBufferToWav)   *)
(* is imported by App.tsx but its text is not part of the sources at hand; *)
(* those three operators follow sections 4.1 and 4.2 of the specification. *)
(*                                                                         *)
(* Floating point samples: a sample is represented by its numerator k over *)
(* the fixed denominator SampleUnit = 32768 * SubSteps. A decoded sample,  *)
(* a 16 bit value divided by 32768, is the numerator value * SubSteps; the *)
(* numerators that are no multiple of SubSteps are the samples between two *)
(* decoded values. With SubSteps = 4 every k / SampleUnit is a float, and  *)
(* its products with 32767 and 32768 are exact in double precision.        *)
(***************************************************************************)
EXTENDS Integers, Sequences, FiniteSets, TLC

VARIABLES
    status,          \* App.tsx:9   AppStatus
    error,           \* App.tsx:10  string | null
    dialogue,        \* App.tsx:11  DialogueLine[]
    userConfig,      \* App.tsx:12  SpeakerConfig
    assistantConfig, \* App.tsx:13  SpeakerConfig
    audioSession,    \* App.tsx:14  AudioSession | null
    reads,           \* FileReaders started by handleFileUpload, not yet settled
    requests,        \* handleGenerate invocations, in click order
    urls,            \* object URLs created and not revoked
    nUrls,           \* object URLs created so far
    nEdits,          \* configuration edits so far
    lastEvent,       \* the handler or continuation that ran last
    cPc, cPayload, cRaw, cBuf, cWav,  \* SpecCodec: the pipeline's stages
    cBack,           \* SpecCodec: the WAV data decoded again
    pPc, pText, pParsed   \* SpecParse: a text and what parseMarkdown makes of it

appVars == <<status, error, dialogue, userConfig, assistantConfig, audioSession,
             reads, requests, urls, nUrls, nEdits, lastEvent>>
codecVars == <<cPc, cPayload, cRaw, cBuf, cWav, cBack>>
parseVars == <<pPc, pText, pParsed>>
pureVars == <<codecVars, parseVars>>
vars == <<appVars, codecVars, parseVars>>

NoError == "null"                \* error: null
NoSession == [null |-> TRUE]     \* audioSession: null

-----------------------------------------------------------------------------
(* Bounds of the model.                                                     *)

MaxEvents == 4          \* user events in one run: files chosen, generate
                        \* clicks accepted and configuration edits
MaxFrames == 3          \* frames of the buffers SpecCodec draws
MaxLines == 3           \* lines of the texts SpecParse draws
SubSteps == 4           \* sample values told apart between k/32768 and (k+1)/32768

-----------------------------------------------------------------------------
(* Program constants.                                                       *)

SampleRate == 24000     \* App.tsx:74  new AudioContext({ sampleRate: 24000 })
NumChannels == 1        \* mono: the channel count the pipeline is fixed at
SampleDenom == 32768    \* decodeAudioData: sample = int16 / 32768.0
PosScale == 32767       \* audioBufferToWav: round(sample * 32767), sample >= 0
NegScale == 32768       \* audioBufferToWav: round(sample * 32768), sample < 0
HeaderSize == 44        \* audioBufferToWav: the RIFF/WAVE header

\* the numerator of the sample 1.0
SampleUnit == SampleDenom * SubSteps

Max(a, b) == IF a >= b THEN a ELSE b
Min(a, b) == IF a <= b THEN a ELSE b

-----------------------------------------------------------------------------
(* decodeBase64: base64 text, a sequence of one-character strings, to bytes *)

B64Alphabet ==
    << "A","B","C","D","E","F","G","H","I","J","K","L","M","N","O","P",
       "Q","R","S","T","U","V","W","X","Y","Z","a","b","c","d","e","f",
       "g","h","i","j","k","l","m","n","o","p","q","r","s","t","u","v",
       "w","x","y","z","0","1","2","3","4","5","6","7","8","9","+","/" >>

IsB64Char(c) == \E i \in 1..64 : B64Alphabet[i] = c

B64Value(c) == (CHOOSE i \in 1..64 : B64Alphabet[i] = c) - 1

\* the padding a well-formed payload ends with: none, "=" or "=="
B64PadCount(s) ==
    IF Len(s) % 4 # 0 \/ Len(s) = 0 THEN 0
    ELSE IF s[Len(s)] # "=" THEN 0
    ELSE IF s[Len(s) - 1] = "=" THEN 2 ELSE 1

B64Sextet(s, n, i) == IF i <= n THEN B64Value(s[i]) ELSE 0

\* byte j (from 0) of the n sextets s[1..n]
B64Byte(s, n, j) ==
    LET g == 4 * (j \div 3)
        v == B64Sextet(s, n, g + 1) * 262144 + B64Sextet(s, n, g + 2) * 4096
             + B64Sextet(s, n, g + 3) * 64 + B64Sextet(s, n, g + 4)
        k == j % 3
    IN  IF k = 0 THEN v \div 65536
        ELSE IF k = 1 THEN (v \div 256) % 256
        ELSE v % 256

DecodeBase64Message == "DecodeError: invalid base64"
DecodeFramesMessage == "DecodeError: no audio frames"

decodeBase64(payload) ==
    LET n == Len(payload) - B64PadCount(payload)
    IN  IF (\E i \in 1..n : ~IsB64Char(payload[i])) \/ n % 4 = 1
        THEN [ok |-> FALSE, message |-> DecodeBase64Message]
        ELSE [ok |-> TRUE,
              bytes |-> [j \in 1..((n * 6) \div 8) |-> B64Byte(payload, n, j - 1)]]

-----------------------------------------------------------------------------
(* decodeAudioData: 16 bit little-endian PCM bytes to an AudioBuffer        *)

\* the signed 16 bit little-endian integer at byte offset off (from 0)
ReadInt16(bytes, off) ==
    LET u == bytes[off + 1] + 256 * bytes[off + 2]
    IN  IF u >= 32768 THEN u - 65536 ELSE u

ReadUint16(bytes, off) == bytes[off + 1] + 256 * bytes[off + 2]

ReadUint32(bytes, off) ==
    bytes[off + 1] + 256 * bytes[off + 2] + 65536 * bytes[off + 3]
    + 16777216 * bytes[off + 4]

FrameCount(byteLength, channels) == (byteLength \div 2) \div channels

\* sample i of channel c is the integer at (i * channels + c) * 2, over 32768:
\* channelData holds the numerators over SampleUnit
decodeAudioData(data, sampleRate, channels) ==
    LET frames == FrameCount(Len(data), channels)
    IN  IF frames = 0
        THEN [ok |-> FALSE, message |-> DecodeFramesMessage]
        ELSE [ok |-> TRUE,
              buffer |->
                [sampleRate |-> sampleRate,
                 numberOfChannels |-> channels,
                 length |-> frames,
                 channelData |->
                   [c \in 1..channels |->
                      [i \in 1..frames |->
                         ReadInt16(data, ((i - 1) * channels + (c - 1)) * 2)
                         * SubSteps]]]]

-----------------------------------------------------------------------------
(* audioBufferToWav: an AudioBuffer to the bytes of a WAV file              *)

\* Math.round: the nearest integer, halves upwards, of num / den (den > 0, even)
RoundDiv(num, den) == (num + den \div 2) \div den

\* the clamp left out
ClampSampleNone(k) == k

\* clamp to [-1.0, 1.0], on numerators over SampleUnit
ClampSample(k) == Max(-SampleUnit, Min(SampleUnit, k))

\* Math.floor in the place of Math.round
RoundScaledFloor(x, scale) ==
    LET q == x \div SubSteps
        r == x % SubSteps
    IN  q + (r * SampleDenom - x * (SampleDenom - scale)) \div SampleUnit

\* Math.round(sample * scale) for the sample x / SampleUnit. The product
\* x * scale does not fit 32 bits, so the whole part q of x / SubSteps is
\* taken out first: with x = q * SubSteps + r,
\*   x * scale / SampleUnit
\*     = q + (r * SampleDenom - x * (SampleDenom - scale)) / SampleUnit
RoundScaled(x, scale) ==
    LET q == x \div SubSteps
        r == x % SubSteps
    IN  q + RoundDiv(r * SampleDenom - x * (SampleDenom - scale), SampleUnit)

\* one constant for both signs
ScaleSampleSymmetric(k) == RoundScaled(ClampSample(k), NegScale)

\* negative: round(sample * 32768); otherwise: round(sample * 32767)
ScaleSample(k) ==
    LET s == ClampSample(k)
    IN  IF s < 0 THEN RoundScaled(s, NegScale)
        ELSE RoundScaled(s, PosScale)

\* DataView.setInt16(offset, v, true): v modulo 2^16, low byte first
Int16LE(v) == LET u == v % 65536 IN << u % 256, u \div 256 >>

Uint16LE(v) == LET u == v % 65536 IN << u % 256, u \div 256 >>

\* DataView.setUint32(offset, v, true), for the v < 2^31 the bounds allow
Uint32LE(v) ==
    << v % 256, (v \div 256) % 256, (v \div 65536) % 256, (v \div 16777216) % 256 >>

\* the channel count forgotten
DataSizeMono(buffer) == buffer.length * 2

DataSize(buffer) == buffer.length * buffer.numberOfChannels * 2

WavHeader(buffer) ==
    << 82, 73, 70, 70 >> \o Uint32LE(36 + DataSize(buffer))          \* "RIFF"
    \o << 87, 65, 86, 69 >>                                           \* "WAVE"
    \o << 102, 109, 116, 32 >> \o Uint32LE(16)                        \* "fmt "
    \o Uint16LE(1) \o Uint16LE(buffer.numberOfChannels)
    \o Uint32LE(buffer.sampleRate)
    \o Uint32LE(buffer.sampleRate * buffer.numberOfChannels * 2)
    \o Uint16LE(buffer.numberOfChannels * 2) \o Uint16LE(16)
    \o << 100, 97, 116, 97 >> \o Uint32LE(DataSize(buffer))           \* "data"

\* byte j (from 0) of the data chunk: frame by frame, channel by channel
WavDataByte(buffer, j) ==
    LET slot == j \div 2
        i == slot \div buffer.numberOfChannels
        c == slot % buffer.numberOfChannels
    IN  Int16LE(ScaleSample(buffer.channelData[c + 1][i + 1]))[(j % 2) + 1]

audioBufferToWav(buffer) ==
    [type |-> "audio/wav",
     bytes |-> WavHeader(buffer)
               \o [j \in 1..DataSize(buffer) |-> WavDataByte(buffer, j - 1)]]

\* the data chunk of a WAV file: the bytes after the header
DataChunk(wav) == SubSeq(wav, HeaderSize + 1, Len(wav))

-----------------------------------------------------------------------------
(* handleGenerate, lines 75-77: payload to decoded buffer and WAV blob      *)

Pipeline(base64) ==
    LET decodedData == decodeBase64(base64)
    IN  IF ~decodedData.ok THEN [ok |-> FALSE, message |-> decodedData.message]
        ELSE LET audio == decodeAudioData(decodedData.bytes, SampleRate, NumChannels)
             IN  IF ~audio.ok THEN [ok |-> FALSE, message |-> audio.message]
                 ELSE [ok |-> TRUE,
                       buffer |-> audio.buffer,
                       blob |-> audioBufferToWav(audio.buffer)]

-----------------------------------------------------------------------------
(* generateTTS: the request it sends and what it makes of the response      *)

\* an optional value: <<>> when absent (undefined), <<v>> when present
Absent == << >>
Present(v) == << v >>

NoAudioMessage == "No audio data received from Gemini API"

\* the dialogue as the prompt names it, and the two speakerVoiceConfigs
generateTTSCall(lines, uc, ac) ==
    [dialogueText |->
        [i \in 1..Len(lines) |->
            [name |-> IF lines[i].speaker = "User" THEN uc.name ELSE ac.name,
             text |-> lines[i].text]],
     speakerVoiceConfigs |->
        << [speaker |-> uc.name, voiceName |-> uc.voice],
           [speaker |-> ac.name, voiceName |-> ac.voice] >>]

\* response.candidates?.[0]?.content?.parts?.[0]?.inlineData?.data
InlineData(response) ==
    IF Len(response.candidates) = 0 THEN Absent
    ELSE LET parts == response.candidates[1].parts
         IN  IF Len(parts) = 0 THEN Absent
             ELSE IF Len(parts[1].inlineData) = 0 THEN Absent
             ELSE parts[1].inlineData[1].data

\* !base64Audio: undefined, or the empty string
NoAudio(data) == data = Absent \/ data[1] = << >>

\* the error thrown without its message
generateTTSBareError(response) ==
    LET base64Audio == InlineData(response)
    IN  IF NoAudio(base64Audio)
        THEN [ok |-> FALSE, message |-> ""]
        ELSE [ok |-> TRUE, base64 |-> base64Audio[1]]

generateTTS(response) ==
    LET base64Audio == InlineData(response)
    IN  IF NoAudio(base64Audio)
        THEN [ok |-> FALSE, message |-> NoAudioMessage]
        ELSE [ok |-> TRUE, base64 |-> base64Audio[1]]

-----------------------------------------------------------------------------
(* parseMarkdown: a line is a sequence of tokens, a text a sequence of lines *)

\* what "." of the two patterns does not match; "\r" stands for U+2028 and
\* U+2029 as well
LineTerminators == {"\r"}
\* what trim() strips and \s matches
Whitespace == {" ", "\t"} \cup LineTerminators
UserTags == {"User:", "user:", "USER:"}                  \* /^User:/i
AssistantTags == {"Assistant:", "assistant:", "ASSISTANT:"}   \* /^Assistant:/i

RECURSIVE TrimStart(_)
TrimStart(line) ==
    IF line # << >> /\ Head(line) \in Whitespace THEN TrimStart(Tail(line)) ELSE line

RECURSIVE TrimEnd(_)
TrimEnd(line) ==
    IF line # << >> /\ line[Len(line)] \in Whitespace
    THEN TrimEnd(SubSeq(line, 1, Len(line) - 1)) ELSE line

Trim(line) == TrimEnd(TrimStart(line))

\* (.*): the longest run of characters other than line terminators
RECURSIVE DotStar(_)
DotStar(seq) ==
    IF seq = << >> \/ Head(seq) \in LineTerminators THEN << >>
    ELSE << Head(seq) >> \o DotStar(Tail(seq))

\* match[1].trim() of /^User:\s*(.*)/i or /^Assistant:\s*(.*)/i, for what
\* follows the tag
MatchText(rest) == Trim(DotStar(TrimStart(rest)))

\* a continuation joined without the space
ParseLineNoSpace(parsed, line) ==
    LET trimmed == Trim(line)
    IN  IF trimmed = << >> THEN parsed
        ELSE IF Head(trimmed) \in UserTags
        THEN Append(parsed, [speaker |-> "User", text |-> MatchText(Tail(trimmed))])
        ELSE IF Head(trimmed) \in AssistantTags
        THEN Append(parsed, [speaker |-> "Assistant", text |-> MatchText(Tail(trimmed))])
        ELSE IF Len(parsed) > 0
        THEN [parsed EXCEPT ![Len(parsed)].text = @ \o trimmed]
        ELSE parsed

\* one step of lines.forEach
ParseLine(parsed, line) ==
    LET trimmed == Trim(line)
    IN  IF trimmed = << >> THEN parsed
        ELSE IF Head(trimmed) \in UserTags
        THEN Append(parsed, [speaker |-> "User", text |-> MatchText(Tail(trimmed))])
        ELSE IF Head(trimmed) \in AssistantTags
        THEN Append(parsed, [speaker |-> "Assistant", text |-> MatchText(Tail(trimmed))])
        ELSE IF Len(parsed) > 0
        THEN [parsed EXCEPT ![Len(parsed)].text = @ \o << " " >> \o trimmed]
        ELSE parsed

RECURSIVE ParseLines(_, _)
ParseLines(parsed, lines) ==
    IF lines = << >> THEN parsed
    ELSE ParseLines(ParseLine(parsed, Head(lines)), Tail(lines))

ParseErrorMessage == "No valid 'User:' or 'Assistant:' lines found in the file."
ReadErrorMessage == "Failed to read file."
GenerateErrorMessage == "An error occurred during audio generation."


-----------------------------------------------------------------------------
(* Inputs of the application model.                                         *)

\* uploaded texts, split at "\n": two turns; a turn, its continuation and a
\* blank line; no turn at all
FileTwoTurns == << << "User:", " ", "hi" >>, << "Assistant:", "there" >> >>
FileContinued == << << " ", "user:", "hi", " " >>, << "there" >>, << >> >>
FileNoTurns == << << "hi" >>, << " " >> >>
Files == {FileTwoTurns, FileContinued, FileNoTurns}

NameInputs == {"John"}
VoiceInputs == {"Kore", "Puck"}

\* base64 payloads: 01 00 (one frame); 00 00 FF 7F 00 80 01 00 (four frames);
\* a single byte (no frame); the empty string; text that is not base64
PayloadOneFrame == << "A", "Q", "A", "=" >>
PayloadScenario == << "A", "A", "D", "/", "f", "w", "C", "A", "A", "Q", "A", "=" >>
PayloadOneByte == << "A", "A", "=", "=" >>
PayloadEmpty == << >>
PayloadInvalid == << "!", "!", "!", "!" >>
Payloads == {PayloadOneFrame, PayloadScenario, PayloadOneByte, PayloadEmpty,
             PayloadInvalid}
\* the payloads the remote call of the application model answers with
AppPayloads == Payloads \ {PayloadOneFrame}

ResponseWith(data) ==
    [candidates |-> << [parts |-> << [inlineData |-> Present([data |-> data])] >>] >>]

\* what the remote call resolves with: no candidates, no parts, a text part
\* without inlineData, inlineData without data, or a payload
Responses ==
    { [candidates |-> << >>],
      [candidates |-> << [parts |-> << >>] >>],
      [candidates |-> << [parts |-> << [inlineData |-> Absent] >>] >>],
      ResponseWith(Absent) }
    \cup { ResponseWith(Present(p)) : p \in AppPayloads }

\* what the remote call rejects with: err.message
Rejections == {"Network error", ""}

Event(op, arg) == [op |-> op, arg |-> arg]

\* the user events so far, which MaxEvents bounds
UserEvents == Len(reads) + Len(requests) + nEdits

-----------------------------------------------------------------------------
(* The component's state after construction.                                *)

InitCodecIdle ==
    /\ cPc = "idle"
    /\ cPayload = << >>
    /\ cRaw = << >>
    /\ cBuf = NoSession
    /\ cWav = << >>
    /\ cBack = NoSession

InitParseIdle ==
    /\ pPc = "idle"
    /\ pText = << >>
    /\ pParsed = << >>

InitApp ==
    /\ status = "IDLE"
    /\ error = NoError
    /\ dialogue = << >>
    /\ userConfig = [name |-> "User", voice |-> "Kore"]
    /\ assistantConfig = [name |-> "Assistant", voice |-> "Puck"]
    /\ audioSession = NoSession
    /\ reads = << >>
    /\ requests = << >>
    /\ urls = {}
    /\ nUrls = 0
    /\ nEdits = 0
    /\ lastEvent = Event("init", 0)

Init == InitApp /\ InitCodecIdle /\ InitParseIdle

-----------------------------------------------------------------------------
(* File upload: handleFileUpload, the FileReader's callbacks, parseMarkdown *)

\* the change event of the file input with no file chosen: if (!file) return
ChooseNoFile ==
    /\ lastEvent' = Event("noFile", 0)
    /\ UNCHANGED <<status, error, dialogue, userConfig, assistantConfig,
                   audioSession, reads, requests, urls, nUrls, nEdits,
                   pureVars>>

\* choosing a file abandons the requests in flight
handleFileUploadCancels(file) ==
    /\ UserEvents < MaxEvents
    /\ status' = "PARSING"
    /\ reads' = Append(reads, [file |-> file, state |-> "reading",
                                dialogueAtUpload |-> dialogue,
                                sessionAtUpload |-> audioSession])
    /\ requests' = [r \in 1..Len(requests) |->
                       IF requests[r].state = "pending"
                       THEN [requests[r] EXCEPT !.state = "cancelled"]
                       ELSE requests[r]]
    /\ lastEvent' = Event("upload", 0)
    /\ UNCHANGED <<error, dialogue, userConfig, assistantConfig, audioSession,
                   urls, nUrls, nEdits, pureVars>>

\* lines 19-32, with a file chosen. The reader started remembers, for the
\* properties, the dialogue and the session held when the file was chosen.
handleFileUpload(file) ==
    /\ UserEvents < MaxEvents
    /\ status' = "PARSING"
    /\ reads' = Append(reads, [file |-> file, state |-> "reading",
                                dialogueAtUpload |-> dialogue,
                                sessionAtUpload |-> audioSession])
    /\ lastEvent' = Event("upload", 0)
    /\ UNCHANGED <<error, dialogue, userConfig, assistantConfig, audioSession,
                   requests, urls, nUrls, nEdits,
                   pureVars>>

\* a file without a turn empties the dialogue
parseMarkdownClearsDialogue(text) ==
    LET parsed == ParseLines(<< >>, text)
    IN  IF Len(parsed) = 0
        THEN /\ error' = ParseErrorMessage
             /\ status' = "ERROR"
             /\ dialogue' = << >>
             /\ UNCHANGED audioSession
        ELSE /\ dialogue' = parsed
             /\ status' = "IDLE"
             /\ audioSession' = NoSession
             /\ UNCHANGED error

\* the effect of parseMarkdown(text) on the state cells
parseMarkdown(text) ==
    LET parsed == ParseLines(<< >>, text)
    IN  IF Len(parsed) = 0
        THEN /\ error' = ParseErrorMessage
             /\ status' = "ERROR"
             /\ UNCHANGED <<dialogue, audioSession>>
        ELSE /\ dialogue' = parsed
             /\ status' = "IDLE"
             /\ audioSession' = NoSession
             /\ UNCHANGED error

\* a FileReader whose onload or onerror has run
ReadDone ==
    [file |-> << >>, state |-> "done",
     dialogueAtUpload |-> << >>, sessionAtUpload |-> NoSession]

\* reader.onload
ReaderLoad(i) ==
    /\ i \in 1..Len(reads)
    /\ reads[i].state = "reading"
    /\ parseMarkdown(reads[i].file)
    /\ reads' = [reads EXCEPT ![i] = ReadDone]
    /\ lastEvent' = Event("load", 0)
    /\ UNCHANGED <<userConfig, assistantConfig, requests, urls, nUrls, nEdits,
                   pureVars>>

\* a failed read also drops the session
ReaderErrorClears(i) ==
    /\ i \in 1..Len(reads)
    /\ reads[i].state = "reading"
    /\ error' = ReadErrorMessage
    /\ status' = "ERROR"
    /\ audioSession' = NoSession
    /\ reads' = [reads EXCEPT ![i] = ReadDone]
    /\ lastEvent' = Event("readError", 0)
    /\ UNCHANGED <<dialogue, userConfig, assistantConfig, requests,
                   urls, nUrls, nEdits, pureVars>>

\* reader.onerror
ReaderError(i) ==
    /\ i \in 1..Len(reads)
    /\ reads[i].state = "reading"
    /\ error' = ReadErrorMessage
    /\ status' = "ERROR"
    /\ reads' = [reads EXCEPT ![i] = ReadDone]
    /\ lastEvent' = Event("readError", 0)
    /\ UNCHANGED <<dialogue, userConfig, assistantConfig, audioSession, requests,
                   urls, nUrls, nEdits,
                   pureVars>>

-----------------------------------------------------------------------------
(* Configuration: the four onChange handlers of lines 160, 169, 188, 197    *)

SetUserName(name) ==
    /\ UserEvents < MaxEvents
    /\ userConfig' = [userConfig EXCEPT !.name = name]
    /\ nEdits' = nEdits + 1
    /\ lastEvent' = Event("config", 0)
    /\ UNCHANGED <<status, error, dialogue, assistantConfig, audioSession, reads,
                   requests, urls, nUrls,
                   pureVars>>

SetUserVoice(voice) ==
    /\ UserEvents < MaxEvents
    /\ userConfig' = [userConfig EXCEPT !.voice = voice]
    /\ nEdits' = nEdits + 1
    /\ lastEvent' = Event("config", 0)
    /\ UNCHANGED <<status, error, dialogue, assistantConfig, audioSession, reads,
                   requests, urls, nUrls,
                   pureVars>>

SetAssistantName(name) ==
    /\ UserEvents < MaxEvents
    /\ assistantConfig' = [assistantConfig EXCEPT !.name = name]
    /\ nEdits' = nEdits + 1
    /\ lastEvent' = Event("config", 0)
    /\ UNCHANGED <<status, error, dialogue, userConfig, audioSession, reads,
                   requests, urls, nUrls,
                   pureVars>>

SetAssistantVoice(voice) ==
    /\ UserEvents < MaxEvents
    /\ assistantConfig' = [assistantConfig EXCEPT !.voice = voice]
    /\ nEdits' = nEdits + 1
    /\ lastEvent' = Event("config", 0)
    /\ UNCHANGED <<status, error, dialogue, userConfig, audioSession, reads,
                   requests, urls, nUrls,
                   pureVars>>


-----------------------------------------------------------------------------
(* Generation: the generate button, handleGenerate and its continuation     *)

\* the button's disabled attribute, lines 208-210, negated
GenerateEnabled == ~(status = "GENERATING" \/ Len(dialogue) = 0)

Pending(r) == r \in 1..Len(requests) /\ requests[r].state = "pending"
PendingRequests == {r \in 1..Len(requests) : requests[r].state = "pending"}

\* the guard of line 68 left out
handleGenerateUnguarded ==
    /\ status' = "GENERATING"
    /\ error' = NoError
    /\ requests' = Append(requests,
           [lines |-> dialogue,
            state |-> "pending",
            sessionAtClick |-> audioSession,
            overlapped |-> PendingRequests # {},
            url |-> 0])
    /\ lastEvent' = Event("generate", Len(requests) + 1)
    /\ UNCHANGED <<dialogue, userConfig, assistantConfig, audioSession,
                   reads, urls, nUrls, nEdits, pureVars>>

\* handleGenerate up to the await of generateTTS. generateTTS sends
\* generateTTSCall(dialogue, userConfig, assistantConfig) at once and reads
\* none of it again, so the request in flight keeps the lines only. It
\* remembers, for the properties, the session held at the click (while it is
\* pending), whether another request was pending then and, once it has
\* succeeded, the object URL it created.
handleGenerate ==
    IF Len(dialogue) = 0
    THEN /\ lastEvent' = Event("generateIgnored", 0)
         /\ UNCHANGED <<status, error, dialogue, userConfig, assistantConfig,
                        audioSession, reads, requests, urls, nUrls, nEdits,
                        pureVars>>
    ELSE /\ status' = "GENERATING"
         /\ error' = NoError
         /\ requests' = Append(requests,
                [lines |-> dialogue,
                 state |-> "pending",
                 sessionAtClick |-> audioSession,
                 overlapped |-> PendingRequests # {},
                 url |-> 0])
         /\ lastEvent' = Event("generate", Len(requests) + 1)
         /\ UNCHANGED <<dialogue, userConfig, assistantConfig, audioSession,
                        reads, urls, nUrls, nEdits, pureVars>>

ClickGenerate ==
    /\ GenerateEnabled
    /\ UserEvents < MaxEvents
    /\ handleGenerate

\* handleGenerate called although the button is disabled for want of a
\* dialogue: the early return of line 68
GenerateWithoutDialogue ==
    /\ Len(dialogue) = 0
    /\ handleGenerate

\* err.message || "An error occurred during audio generation."
CatchMessage(message) == IF message # "" THEN message ELSE GenerateErrorMessage

\* setStatus(SUCCESS) without setAudioSession
SettleSuccessStatusOnly(r, out) ==
    LET url == nUrls + 1
    IN  /\ nUrls' = url
        /\ urls' = urls \cup {url}
        /\ status' = "SUCCESS"
        /\ requests' = [requests EXCEPT ![r].state = "SUCCESS",
                                        ![r].sessionAtClick = NoSession,
                                        ![r].url = url]
        /\ lastEvent' = Event("generated", r)
        /\ UNCHANGED <<error, dialogue, userConfig, assistantConfig, audioSession,
                       reads, nEdits, pureVars>>

\* lines 78-85: createObjectURL, setAudioSession, setStatus(SUCCESS)
SettleSuccess(r, out) ==
    LET url == nUrls + 1
    IN  /\ nUrls' = url
        /\ urls' = urls \cup {url}
        /\ audioSession' = [buffer |-> out.buffer, blob |-> out.blob, url |-> url]
        /\ status' = "SUCCESS"
        /\ requests' = [requests EXCEPT ![r].state = "SUCCESS",
                                        ![r].sessionAtClick = NoSession,
                                        ![r].url = url]
        /\ lastEvent' = Event("generated", r)
        /\ UNCHANGED <<error, dialogue, userConfig, assistantConfig, reads, nEdits,
                       pureVars>>

\* the catch block also drops the session
SettleFailureClears(r, message) ==
    /\ error' = CatchMessage(message)
    /\ status' = "ERROR"
    /\ audioSession' = NoSession
    /\ requests' = [requests EXCEPT ![r].state = "ERROR",
                                    ![r].sessionAtClick = NoSession]
    /\ lastEvent' = Event("generateFailed", r)
    /\ UNCHANGED <<dialogue, userConfig, assistantConfig, reads,
                   urls, nUrls, nEdits, pureVars>>

\* the catch block only logs: console.error(err)
SettleFailureSilent(r, message) ==
    /\ requests' = [requests EXCEPT ![r].state = "ERROR",
                                    ![r].sessionAtClick = NoSession]
    /\ lastEvent' = Event("generateFailed", r)
    /\ UNCHANGED <<status, error, dialogue, userConfig, assistantConfig,
                   audioSession, reads, urls, nUrls, nEdits, pureVars>>

\* lines 86-90: the catch block
SettleFailure(r, message) ==
    /\ error' = CatchMessage(message)
    /\ status' = "ERROR"
    /\ requests' = [requests EXCEPT ![r].state = "ERROR",
                                    ![r].sessionAtClick = NoSession]
    /\ lastEvent' = Event("generateFailed", r)
    /\ UNCHANGED <<dialogue, userConfig, assistantConfig, audioSession, reads,
                   urls, nUrls, nEdits,
                   pureVars>>

\* the try block from the value generateTTS settled with. decodeAudioData is
\* awaited too, but it does no I/O: its continuation runs before any other
\* handler can, so the block is one step.
Settle(r, tts) ==
    IF ~tts.ok THEN SettleFailure(r, tts.message)
    ELSE LET out == Pipeline(tts.base64)
         IN  IF out.ok THEN SettleSuccess(r, out)
             ELSE SettleFailure(r, out.message)

\* ai.models.generateContent resolves with response
RemoteResolves(r, response) ==
    /\ Pending(r)
    /\ Settle(r, generateTTS(response))

\* ai.models.generateContent rejects with an error carrying message
RemoteRejects(r, message) ==
    /\ Pending(r)
    /\ Settle(r, [ok |-> FALSE, message |-> message])

downloadAudio ==
    /\ audioSession # NoSession
    /\ lastEvent' = Event("download", 0)
    /\ UNCHANGED <<status, error, dialogue, userConfig, assistantConfig,
                   audioSession, reads, requests, urls, nUrls, nEdits,
                   pureVars>>

-----------------------------------------------------------------------------
(* The application.                                                         *)

Next ==
    \/ ChooseNoFile
    \/ \E file \in Files : handleFileUpload(file)
    \/ \E i \in 1..MaxEvents : ReaderLoad(i)
    \/ \E i \in 1..MaxEvents : ReaderError(i)
    \/ \E name \in NameInputs : SetUserName(name)
    \/ \E voice \in VoiceInputs : SetUserVoice(voice)
    \/ \E name \in NameInputs : SetAssistantName(name)
    \/ \E voice \in VoiceInputs : SetAssistantVoice(voice)
    \/ ClickGenerate
    \/ GenerateWithoutDialogue
    \/ \E r \in 1..MaxEvents, response \in Responses : RemoteResolves(r, response)
    \/ \E r \in 1..MaxEvents, message \in Rejections : RemoteRejects(r, message)
    \/ downloadAudio

Spec == Init /\ [][Next]_vars

\* every remote call settles: the claim's assumption that generateContent
\* eventually resolves or rejects
RemoteSettles(r) ==
    \/ \E response \in Responses : RemoteResolves(r, response)
    \/ \E message \in Rejections : RemoteRejects(r, message)

FairSpec ==
    Spec /\ \A r \in 1..MaxEvents : WF_vars(RemoteSettles(r))


-----------------------------------------------------------------------------
(* The codec on its own: payload -> bytes -> AudioBuffer -> WAV bytes       *)

\* sample numerators over SampleUnit: -1.25, -1.0, -0.5, the sample next below
\* 0, 0, 1/32768, 32767/32768, the sample three steps below 1.0, 1.0 and 1.25
MonoSamples ==
    {-SampleUnit - SampleUnit \div 4, -SampleUnit, -SampleUnit \div 2, -1, 0,
     SubSteps, SampleUnit - SubSteps, SampleUnit - 3, SampleUnit,
     SampleUnit + SampleUnit \div 4}
StereoSamples == {-SampleUnit, 0, SampleUnit - SubSteps}
Rates == {8000, 24000}

BuffersOf(rate, channels, frames, samples) ==
    { [sampleRate |-> rate, numberOfChannels |-> channels, length |-> frames,
       channelData |-> d] : d \in [1..channels -> [1..frames -> samples]] }

\* the buffer of the header example: 1000 frames, mono, 24000 Hz
LongBuffer ==
    [sampleRate |-> 24000, numberOfChannels |-> 1, length |-> 1000,
     channelData |->
        << [i \in 1..1000 |->
               IF i % 2 = 0 THEN SampleUnit \div 2 ELSE -SampleUnit \div 2] >>]

CodecBuffers ==
    UNION { BuffersOf(rate, 1, frames, MonoSamples) \cup
            BuffersOf(rate, 2, frames, StereoSamples) :
            rate \in Rates, frames \in 0..MaxFrames }
    \cup {LongBuffer}

InitCodec ==
    /\ \/ /\ cPc = "payload"
          /\ cPayload \in Payloads
          /\ cBuf = NoSession
       \/ /\ cPc = "buffer"
          /\ cPayload = << >>
          /\ cBuf \in CodecBuffers
    /\ cRaw = << >>
    /\ cWav = << >>
    /\ cBack = NoSession

\* line 75
CodecDecodeBase64 ==
    /\ cPc = "payload"
    /\ LET decodedData == decodeBase64(cPayload)
       IN  IF decodedData.ok
           THEN cRaw' = decodedData.bytes /\ cPc' = "raw"
           ELSE cRaw' = cRaw /\ cPc' = "error"
    /\ UNCHANGED <<cPayload, cBuf, cWav, cBack, appVars, parseVars>>

\* line 76
CodecDecodeAudioData ==
    /\ cPc = "raw"
    /\ LET audio == decodeAudioData(cRaw, SampleRate, NumChannels)
       IN  IF audio.ok
           THEN cBuf' = audio.buffer /\ cPc' = "buffer"
           ELSE cBuf' = cBuf /\ cPc' = "error"
    /\ UNCHANGED <<cPayload, cRaw, cWav, cBack, appVars, parseVars>>

\* line 77
CodecEncode ==
    /\ cPc = "buffer"
    /\ cWav' = audioBufferToWav(cBuf).bytes
    /\ cPc' = "wav"
    /\ UNCHANGED <<cPayload, cRaw, cBuf, cBack, appVars, parseVars>>

\* the round trip: the header stripped and the data chunk decoded with the
\* encoded buffer's rate and channel count
CodecDecodeBack ==
    /\ cPc = "wav"
    /\ cBack' = decodeAudioData(DataChunk(cWav), cBuf.sampleRate,
                                cBuf.numberOfChannels)
    /\ cPc' = "back"
    /\ UNCHANGED <<cPayload, cRaw, cBuf, cWav, appVars, parseVars>>

NextCodec ==
    \/ CodecDecodeBase64
    \/ CodecDecodeAudioData
    \/ CodecEncode
    \/ CodecDecodeBack

InitCodecSpec == InitApp /\ InitCodec /\ InitParseIdle

SpecCodec == InitCodecSpec /\ [][NextCodec]_vars


-----------------------------------------------------------------------------
(* parseMarkdown's line loop on its own: text -> turns                      *)

\* lines, as text.split('\n') hands them over: blank; whitespace only; a
\* turn; a turn in lower case with whitespace around and the "\r" of a CRLF
\* line end; plain text; plain text with whitespace around; a tag alone; a
\* turn with a carriage return inside; plain text with a tag inside
LinePool ==
    { << >>,
      << " ", "\t" >>,
      << "User:", " ", "hi" >>,
      << " ", "assistant:", "yes", " ", "ok", "\r" >>,
      << "more" >>,
      << "\t", "and", " ", "so", " " >>,
      << "USER:" >>,
      << "User:", "a", "\r", "b" >>,
      << "Note", " ", "User:", "x" >> }

Texts == UNION { [1..n -> LinePool] : n \in 0..MaxLines }

InitParse ==
    /\ pPc = "text"
    /\ pText \in Texts
    /\ pParsed = << >>

\* lines 36-55: const lines = text.split('\n'); lines.forEach(...)
ParseText ==
    /\ pPc = "text"
    /\ pParsed' = ParseLines(<< >>, pText)
    /\ pPc' = "parsed"
    /\ UNCHANGED <<pText, appVars, codecVars>>

NextParse == ParseText

InitParseSpec == InitApp /\ InitCodecIdle /\ InitParse

SpecParse == InitParseSpec /\ [][NextParse]_vars

-----------------------------------------------------------------------------
(* Properties.                                                              *)

RequestIds == 1..MaxEvents

\* request r's continuation runs in this step and ends in the catch block
GenerationFails(r) == Pending(r) /\ requests'[r].state = "ERROR"

\* some request's continuation runs in this step and installs its session
GenerationSucceeds == \E r \in RequestIds : Pending(r) /\ requests'[r].state = "SUCCESS"

\* a FileReader's onload runs in this step and parseMarkdown finds a turn
ParseSucceeds ==
    \E i \in 1..Len(reads) :
        /\ reads[i].state = "reading"
        /\ reads'[i] = ReadDone
        /\ lastEvent' = Event("load", 0)
        /\ Len(ParseLines(<< >>, reads[i].file)) > 0

\* C1: at most one generateTTS request is in flight at any time.
C1_OneRequestInFlight == Cardinality(PendingRequests) <= 1

NoOverlap == \A q \in 1..Len(requests) : ~requests[q].overlapped

\* C2 as stated: when a generation fails, audioSession is the session that
\* existed before its generate click. Stated here for the runs in which no
\* two requests ever overlapped, so that a violation does not rest on C1.
C2_SessionAsBeforeClick ==
    [][\A r \in RequestIds :
         GenerationFails(r) /\ NoOverlap
            => audioSession' = requests[r].sessionAtClick]_vars

\* a session is null or whole: the blob is the encoding of the buffer and the
\* url is one that createObjectURL handed out
SessionWhole(session) ==
    \/ session = NoSession
    \/ /\ session.blob = audioBufferToWav(session.buffer)
       /\ session.url \in 1..nUrls

\* C2 amended: the step in which a generation fails (the catch block) leaves
\* audioSession exactly as it was just before that step, null or whole.
C2_FailureKeepsSession ==
    [][\A r \in RequestIds :
         GenerationFails(r)
            => audioSession' = audioSession /\ SessionWhole(audioSession)]_vars

\* a generation failed while a session was held
C2_Witness == lastEvent.op = "generateFailed" /\ audioSession # NoSession

\* C3: at most one object URL is created and not revoked.
C3_OneLiveUrl == Cardinality(urls) <= 1

\* C4 as stated: a held session changes only by a successful generation.
C4_OnlyGenerationReplaces ==
    [][audioSession # NoSession /\ audioSession' # audioSession
          => GenerationSucceeds]_vars

\* C4 amended: a held session changes only by a successful generation, which
\* replaces it, or by a successful parse of an uploaded file, which clears it.
C4_GenerationOrParse ==
    [][audioSession # NoSession /\ audioSession' # audioSession
          => \/ GenerationSucceeds /\ audioSession' # NoSession
             \/ ParseSucceeds /\ audioSession' = NoSession]_vars

\* a parse failure happened while a session was held, and the session is there
C4_Witness ==
    /\ audioSession # NoSession
    /\ lastEvent.op = "load"
    /\ status = "ERROR"

\* a payload that holds no sample frame: the empty string, or fewer than two bytes
Degenerate(payload) ==
    \/ payload = << >>
    \/ decodeBase64(payload).ok /\ Len(decodeBase64(payload).bytes) < 2

DegeneratePayloads == {p \in AppPayloads : Degenerate(p)}

\* C5: a generation answered with a degenerate payload ends with status ERROR
\* and an error message, installs nothing, and no installed session ever holds
\* a header-only WAV file.
C5_DegenerateFails ==
    [][/\ \A r \in PendingRequests, p \in DegeneratePayloads :
            RemoteResolves(r, ResponseWith(Present(p)))
               => /\ status' = "ERROR"
                  /\ error' \notin {NoError, ""}
                  /\ audioSession' = audioSession
       /\ audioSession' # NoSession
            => /\ audioSession'.buffer.length > 0
               /\ Len(audioSession'.blob.bytes) > HeaderSize]_vars

\* a generation failed on a payload of one byte
C5_Witness ==
    /\ lastEvent.op = "generateFailed"
    /\ status = "ERROR"
    /\ error = DecodeFramesMessage

\* the responses without inline audio data in the first part of the first candidate
NoPayloadResponses == {response \in Responses : InlineData(response) = Absent}

\* C6: for a response without audio payload generateTTS rejects with its
\* message, and handleGenerate ends with status ERROR, error set to that message
\* and no session created.
C6_MissingPayloadReported ==
    [][\A r \in RequestIds, response \in NoPayloadResponses :
         RemoteResolves(r, response)
            => /\ ~generateTTS(response).ok
               /\ generateTTS(response).message # ""
               /\ status' = "ERROR"
               /\ error' = generateTTS(response).message
               /\ error' = NoAudioMessage
               /\ audioSession' = audioSession
               /\ nUrls' = nUrls]_vars

C6_Witness ==
    /\ lastEvent.op = "generateFailed"
    /\ status = "ERROR"
    /\ error = NoAudioMessage

\* request r's outcome has just been applied
Settled(r) ==
    \/ /\ lastEvent = Event("generated", r)
       /\ status = "SUCCESS"
       /\ audioSession # NoSession
       /\ audioSession.url = nUrls
    \/ /\ lastEvent = Event("generateFailed", r)
       /\ status = "ERROR"
       /\ error # NoError

\* C7: every accepted generate click leads to its outcome being applied, status
\* SUCCESS with a new session or status ERROR with a message, whatever happens
\* in between, and the application never stays in GENERATING.
C7_RunsToCompletion ==
    /\ \A r \in RequestIds : Pending(r) ~> Settled(r)
    /\ (status = "GENERATING") ~> (status # "GENERATING")

\* the first request succeeded after a file was chosen and a second request
\* was issued and failed while it was in flight
C7_Witness ==
    /\ Len(requests) = 2
    /\ requests[2].state = "ERROR"
    /\ Settled(1)
    /\ status = "SUCCESS"

ScenarioBytes == << 0, 0, 255, 127, 0, 128, 1, 0 >>
ScenarioEncoded == cPc \in {"wav", "back"} /\ cPayload = PayloadScenario

\* C8 as stated: the scenario's 8 bytes, decoded and encoded again, come back
\* exactly.
C8_ScenarioExact ==
    ScenarioEncoded => cRaw = ScenarioBytes /\ DataChunk(cWav) = cRaw

\* C8 amended: 0, -32768 and 1 come back exactly and 32767 comes back as 32766
\* (bytes FE 7F).
C8_ScenarioOffByOne ==
    ScenarioEncoded
       => /\ cRaw = ScenarioBytes
          /\ cBuf.length = 4
          /\ cBuf.channelData =
                << << 0, 32767 * SubSteps, -32768 * SubSteps, 1 * SubSteps >> >>
          /\ DataChunk(cWav) = << 0, 0, 254, 127, 0, 128, 1, 0 >>

C8_Witness == ScenarioEncoded /\ Len(cWav) = HeaderSize + 8

\* C9: the header's sizes are those of the buffer, and the blob is 44 bytes
\* longer than the data.
C9_HeaderSizes ==
    cPc \in {"wav", "back"} =>
        LET L == cBuf.length
            C == cBuf.numberOfChannels
            R == cBuf.sampleRate
        IN  /\ ReadUint32(cWav, 40) = L * C * 2
            /\ ReadUint32(cWav, 4) = 36 + L * C * 2
            /\ ReadUint32(cWav, 28) = R * C * 2
            /\ ReadUint16(cWav, 32) = C * 2
            /\ ReadUint16(cWav, 34) = 16
            /\ Len(cWav) = 44 + L * C * 2
            /\ (L = 1000 /\ C = 1 /\ R = 24000
                  => /\ ReadUint32(cWav, 4) = 2036
                     /\ ReadUint32(cWav, 40) = 2000
                     /\ ReadUint32(cWav, 28) = 48000
                     /\ ReadUint16(cWav, 32) = 2)

C9_Witness == cPc \in {"wav", "back"} /\ cBuf = LongBuffer /\ ReadUint32(cWav, 4) = 2036

\* the integer the file holds for frame i (from 1) of channel c (from 1)
WrittenSample(wav, buffer, c, i) ==
    ReadInt16(wav, HeaderSize + ((i - 1) * buffer.numberOfChannels + (c - 1)) * 2)

\* C10: every written integer is the scaled sample itself, within
\* [-32768, 32767] and of the sample's sign; 1.0 and above give 32767, -1.0 and
\* below give -32768.
C10_Clamped ==
    cPc \in {"wav", "back"} =>
        \A c \in 1..cBuf.numberOfChannels, i \in 1..cBuf.length :
            LET k == cBuf.channelData[c][i]
                v == WrittenSample(cWav, cBuf, c, i)
            IN  /\ v \in -32768..32767
                /\ v = ScaleSample(k)
                /\ k >= SampleUnit => v = 32767
                /\ k <= -SampleUnit => v = -32768
                /\ k >= 0 => v >= 0
                /\ k < 0 => v <= 0

\* a buffer with a sample above 1.0 and a sample below -1.0 was encoded
C10_Witness ==
    /\ cPc = "wav"
    /\ cBuf.length >= 2
    /\ \E i \in 1..cBuf.length : cBuf.channelData[1][i] > SampleUnit
    /\ \E i \in 1..cBuf.length : cBuf.channelData[1][i] < -SampleUnit

Abs(x) == IF x < 0 THEN -x ELSE x

\* a mono buffer with every sample in [-1.0, 1.0] went round
RoundTripDone ==
    /\ cPc = "back"
    /\ cPayload = << >>
    /\ cBuf.numberOfChannels = 1
    /\ \A i \in 1..cBuf.length : Abs(cBuf.channelData[1][i]) <= SampleUnit

\* C11 as stated: the round trip of a mono buffer with samples in [-1.0, 1.0]
\* yields a buffer of the same length, every sample within 1/32768 of the
\* original.
C11_RoundTripWithinOne ==
    RoundTripDone
       => /\ cBack.ok
          /\ cBack.buffer.length = cBuf.length
          /\ \A i \in 1..cBuf.length :
                Abs(cBack.buffer.channelData[1][i] - cBuf.channelData[1][i])
                   <= SubSteps

\* C11 amended: the round trip of a mono buffer of at least one frame yields a
\* buffer of the same rate and length; a negative sample comes back within
\* 0.5/32768, any other sample within less than 1.5/32768, and a sample that
\* is a multiple of 1/32768 within 1/32768. An empty buffer does not come
\* back: decodeAudioData fails on its zero frames.
C11_RoundTripWithinOneAndAHalf ==
    RoundTripDone
       => IF cBuf.length = 0
          THEN ~cBack.ok /\ cBack.message = DecodeFramesMessage
          ELSE /\ cBack.ok
               /\ cBack.buffer.length = cBuf.length
               /\ cBack.buffer.sampleRate = cBuf.sampleRate
               /\ cBack.buffer.numberOfChannels = 1
               /\ \A i \in 1..cBuf.length :
                     LET k == cBuf.channelData[1][i]
                         b == cBack.buffer.channelData[1][i]
                     IN  /\ k < 0 => 2 * Abs(b - k) <= SubSteps
                         /\ k >= 0 => 2 * Abs(b - k) < 3 * SubSteps
                         /\ k % SubSteps = 0 => Abs(b - k) <= SubSteps

\* a buffer holding a sample more than one step below 1.0 went round and the
\* sample came back more than 1/32768 lower
C11_Witness ==
    /\ RoundTripDone
    /\ cBack.ok
    /\ \E i \in 1..cBuf.length :
          cBuf.channelData[1][i] - cBack.buffer.channelData[1][i] > SubSteps

IsBlank(line) == Trim(line) = << >>

IsTurn(line) ==
    ~IsBlank(line) /\ Head(Trim(line)) \in UserTags \cup AssistantTags

SpeakerOf(line) == IF Head(Trim(line)) \in UserTags THEN "User" ELSE "Assistant"

\* the positions of the turn lines of a text, in file order
TurnLines(text) ==
    LET S == {i \in 1..Len(text) : IsTurn(text[i])}
    IN  [j \in 1..Cardinality(S) |->
            CHOOSE i \in S : Cardinality({k \in S : k < i}) = j - 1]

\* the non-blank lines at positions from..to, each trimmed and led by a space
RECURSIVE Joined(_, _, _)
Joined(text, from, to) ==
    IF from > to THEN << >>
    ELSE (IF IsBlank(text[from]) THEN << >> ELSE << " " >> \o Trim(text[from]))
         \o Joined(text, from + 1, to)

\* one turn per turn line: its speaker, and TextOf of what follows its tag
\* with the lines up to the next turn line joined to it
TurnsOf(text, TextOf(_)) ==
    LET at == TurnLines(text)
        n == Len(at)
    IN  [j \in 1..n |->
            [speaker |-> SpeakerOf(text[at[j]]),
             text |-> TextOf(Tail(Trim(text[at[j]])))
                      \o Joined(text, at[j] + 1,
                                IF j < n THEN at[j + 1] - 1 ELSE Len(text))]]

\* the tokens of a sequence that are no whitespace
Words(seq) == SelectSeq(seq, LAMBDA t : t \notin Whitespace)

RECURSIVE WordsOfLines(_)
WordsOfLines(text) ==
    IF text = << >> THEN << >>
    ELSE (IF IsTurn(Head(text)) THEN Words(Tail(Trim(Head(text))))
          ELSE Words(Head(text)))
         \o WordsOfLines(Tail(text))

RECURSIVE WordsOfTurns(_)
WordsOfTurns(parsed) ==
    IF parsed = << >> THEN << >>
    ELSE Words(Head(parsed).text) \o WordsOfTurns(Tail(parsed))

Loads(i) ==
    /\ i \in 1..Len(reads)
    /\ reads[i].state = "reading"
    /\ reads'[i] = ReadDone
    /\ lastEvent' = Event("load", 0)

\* what parseMarkdown does to status, error and dialogue for reader i's file
ParseOutcome(i) ==
    LET parsed == ParseLines(<< >>, reads[i].file)
    IN  IF Len(parsed) = 0
        THEN /\ status' = "ERROR"
             /\ error' = ParseErrorMessage
             /\ error' # NoError
        ELSE /\ dialogue' = parsed
             /\ status' = "IDLE"
             /\ audioSession' = NoSession

NoTurns(i) == Len(ParseLines(<< >>, reads[i].file)) = 0

\* C13 as stated: a file without a turn gives status ERROR and a message and
\* leaves dialogue and audioSession as they were before the upload, that is
\* when the file was chosen; a file with a turn replaces the dialogue, gives
\* status IDLE and clears the session. Stated for the runs in which no two
\* requests overlapped, so that a violation does not rest on C1.
C13_AsBeforeUpload ==
    [][\A i \in RequestIds :
         Loads(i) /\ NoOverlap
            => /\ ParseOutcome(i)
               /\ NoTurns(i) => /\ dialogue' = reads[i].dialogueAtUpload
                                /\ audioSession' = reads[i].sessionAtUpload]_vars

\* C13 amended: a file without a turn gives status ERROR and a message and
\* leaves dialogue and audioSession as they were just before its content was
\* parsed; a file with a turn replaces the dialogue, gives status IDLE and
\* clears the session.
C13_AsBeforeParse ==
    [][\A i \in RequestIds :
         Loads(i)
            => /\ ParseOutcome(i)
               /\ NoTurns(i) => /\ dialogue' = dialogue
                                /\ audioSession' = audioSession]_vars

\* a file without a turn was parsed while a dialogue was held, which is there
C13_Witness ==
    /\ lastEvent.op = "load"
    /\ status = "ERROR"
    /\ error = ParseErrorMessage
    /\ Len(dialogue) > 0

\* the requests that created the object URL of the session held
Producers == {r \in 1..Len(requests) :
                 requests[r].state = "SUCCESS" /\ requests[r].url = audioSession.url}

\* C14: a session held was produced by a request issued with the dialogue now
\* held. Stated for the runs in which no two requests overlapped, so that a
\* violation does not rest on C1.
C14_SessionOfDialogue ==
    audioSession # NoSession /\ NoOverlap
       => \E r \in Producers : requests[r].lines = dialogue

\* C15: error is non-null only if status is ERROR.
C15_ErrorOnlyInError == error # NoError => status = "ERROR"

\* C16: status SUCCESS implies a session whose buffer, blob and url are those
\* one request installed, the url being the one that request created and the
\* blob the encoding of the buffer; a step that installs a session sets status
\* SUCCESS and a step that clears one sets status IDLE.
C16_SuccessHasSession ==
    [][/\ status' = "SUCCESS"
            => /\ audioSession' # NoSession
               /\ audioSession'.blob = audioBufferToWav(audioSession'.buffer)
               /\ \E r \in 1..Len(requests') :
                     /\ requests'[r].state = "SUCCESS"
                     /\ requests'[r].url = audioSession'.url
       /\ audioSession' # audioSession
            => \/ /\ audioSession' # NoSession
                  /\ status' = "SUCCESS"
                  /\ audioSession'.url = nUrls'
                  /\ nUrls' = nUrls + 1
               \/ /\ audioSession' = NoSession
                  /\ status' = "IDLE"]_vars

\* a generation succeeded while a file chosen after its click was being read
C16_Witness ==
    /\ status = "SUCCESS"
    /\ lastEvent.op = "generated"
    /\ audioSession # NoSession
    /\ \E i \in 1..Len(reads) : reads[i].state = "reading"

\* C17: handleGenerate called with an empty dialogue appends no request and
\* leaves status, error and audioSession alone; a dialogue once non-empty stays
\* non-empty; and no request was issued for an empty sequence of lines.
C17_NoEmptyRequest ==
    [][/\ GenerateWithoutDialogue
            => /\ requests' = requests
               /\ status' = status
               /\ error' = error
               /\ audioSession' = audioSession
       /\ Len(dialogue) > 0 => Len(dialogue') > 0
       /\ \A r \in 1..Len(requests') : Len(requests'[r].lines) > 0]_vars

\* handleGenerate returned at line 68
C17_Witness == lastEvent = Event("generateIgnored", 0) /\ requests = << >>

=============================================================================
